---- MODULE Spec2Model ----
(***************************************************************************)
(* A model of the map rendering handler of evacuate/images (main.go).      *)
(*                                                                         *)
(* One HTTP request is followed through mapHandler and svgToPNG: the       *)
(* "scale" query parameter is parsed and validated, the geometry dataset   *)
(* is read and decoded, calculateBounds fits the view, funcToScreen        *)
(* projects every vertex, the SVG scene is built, rasterised, labelled,    *)
(* captioned, encoded and written.                                         *)
(*                                                                         *)
(* Numbers.  The coordinates of the handler are float64, and what it       *)
(* prints ("%.1f") and truncates (int(x)) depends on how float64 rounds.   *)
(* The model therefore carries float64 values bit for bit: sign, exponent  *)
(* and 53-bit significand, with +, -, *, / rounded to nearest, ties to     *)
(* even, and math.Cos computed by the polynomial kernels of Go's math      *)
(* package (src/math/sin.go), operation by operation.  Those kernels are   *)
(* not correctly rounded: math.Cos(math.Pi/2) is 6.123233995736757e-17,    *)
(* and the cosine of 32 degrees is 0.8480480961564261, one unit in the     *)
(* last place away from the nearest float64.  Every product and sum is     *)
(* rounded on its own, as the amd64 build does; a build that fuses         *)
(* x*y + z into one rounding is not modelled.                              *)
(***************************************************************************)
EXTENDS Integers, Sequences, FiniteSets, TLC

(***************************************************************************)
(* Bounds of the model.                                                    *)
(***************************************************************************)
\* longest intensity list of a request
MaxLen == 2
\* intensityToColor is applied to every level in -MaxLevel .. MaxLevel
MaxLevel == 30

(***************************************************************************)
(* Evaluation order.  The source computes a value once, in a statement,    *)
(* and then uses it; Then, Then2 and Then3 are F applied to the values of  *)
(* their first arguments, computed once.                                   *)
(***************************************************************************)
Then(v, F(_)) == CHOOSE r \in {F(x) : x \in {v}} : TRUE
Then2(v, w, F(_, _)) == CHOOSE r \in {F(x, y) : x \in {v}, y \in {w}} : TRUE
Then3(u, v, w, F(_, _, _)) ==
    CHOOSE r \in {F(x, y, z) : x \in {u}, y \in {v}, z \in {w}} : TRUE

(***************************************************************************)
(* float64                                                                 *)
(*                                                                         *)
(* A float64 is [k, s, e, m]: k is "nan", "inf", "zero" or "fin", s is the *)
(* sign bit, and a finite non-zero value is (-1)^s * M * 2^(e - 52) with   *)
(* the 53-bit significand M in [2^52, 2^53) held in m as four limbs of 14  *)
(* bits, least significant first.  Every operation computes the exact      *)
(* result to 56 bits (53, a guard bit, a round bit and a sticky bit) and   *)
(* rounds to nearest, ties to even.  Results of 2^1024 and more become     *)
(* infinite; gradual underflow below 2^-1022 is not modelled, no value of  *)
(* the handler comes near it.                                              *)
(***************************************************************************)
B == 16384
P2 == <<1, 2, 4, 8, 16, 32, 64, 128, 256, 512, 1024, 2048, 4096, 8192, 16384>>
Zero4 == <<0, 0, 0, 0>>

\* limb j of x, counted from 0 at the least significant end; 0 outside x
Limb(x, j) == IF j >= 0 /\ j < Len(x) THEN x[j + 1] ELSE 0

\* limb i of x shifted right by q limbs and the bits of pw
Shifted(x, i, q, pw) ==
    (Limb(x, i + q) \div pw) + ((Limb(x, i + q + 1) % pw) * (B \div pw))

\* the three and the four low limbs of x shifted right by d bits
ShiftRight3(x0, d0) ==
    Then2(x0, d0, LAMBDA x, d :
        Then2(d \div 14, P2[(d % 14) + 1], LAMBDA q, pw :
            <<Shifted(x, 0, q, pw), Shifted(x, 1, q, pw), Shifted(x, 2, q, pw)>>))

ShiftRight(x0, d0) ==
    Then2(x0, d0, LAMBDA x, d :
        Then2(d \div 14, P2[(d % 14) + 1], LAMBDA q, pw :
            <<Shifted(x, 0, q, pw), Shifted(x, 1, q, pw), Shifted(x, 2, q, pw),
              Shifted(x, 3, q, pw)>>))

\* whether one of the q low limbs of x is not 0
LowLimbs(x, q) ==
    \/ (q > 0 /\ Limb(x, 0) # 0) \/ (q > 1 /\ Limb(x, 1) # 0)
    \/ (q > 2 /\ Limb(x, 2) # 0) \/ (q > 3 /\ Limb(x, 3) # 0)
    \/ (q > 4 /\ Limb(x, 4) # 0) \/ (q > 5 /\ Limb(x, 5) # 0)
    \/ (q > 6 /\ Limb(x, 6) # 0) \/ (q > 7 /\ Limb(x, 7) # 0)

\* whether one of the d low bits of x is set
Dropped(x0, d0) ==
    Then2(x0, d0, LAMBDA x, d :
        Limb(x, d \div 14) % P2[(d % 14) + 1] # 0 \/ LowLimbs(x, d \div 14))

\* bit d of x
BitAt(x, d) == (Limb(x, d \div 14) \div P2[(d % 14) + 1]) % 2

\* x with its lowest bit set when sticky
Jam(x0, sticky0) ==
    Then2(x0, sticky0, LAMBDA x, sticky :
        IF sticky /\ x[1] % 2 = 0 THEN [x EXCEPT ![1] = @ + 1] ELSE x)

\* a non-zero x of four limbs shifted right by d bits; the bits shifted out
\* leave a sticky bit
ShiftRightJam(x0, d0) ==
    Then2(x0, d0, LAMBDA x, d :
        IF d >= 56 THEN <<1, 0, 0, 0>> ELSE Jam(ShiftRight(x, d), Dropped(x, d)))

\* limb i of x shifted left by q limbs and the bits of pw
ShiftedUp(x, i, q, pw) ==
    ((Limb(x, i - q) * pw) % B) + (Limb(x, i - q - 1) \div (B \div pw))

\* x of four limbs shifted left by d < 56 bits, none of its set bits lost
ShiftLeft(x0, d0) ==
    Then2(x0, d0, LAMBDA x, d :
        Then2(d \div 14, P2[(d % 14) + 1], LAMBDA q, pw :
            <<ShiftedUp(x, 0, q, pw), ShiftedUp(x, 1, q, pw), ShiftedUp(x, 2, q, pw),
              ShiftedUp(x, 3, q, pw)>>))

\* the number of bits of x < 2^15
BitLen15(x) ==
    IF x >= 128
    THEN IF x >= 2048
         THEN IF x >= 8192 THEN (IF x >= 16384 THEN 15 ELSE 14)
              ELSE (IF x >= 4096 THEN 13 ELSE 12)
         ELSE IF x >= 512 THEN (IF x >= 1024 THEN 11 ELSE 10)
              ELSE (IF x >= 256 THEN 9 ELSE 8)
    ELSE IF x >= 8
         THEN IF x >= 32 THEN (IF x >= 64 THEN 7 ELSE 6)
              ELSE (IF x >= 16 THEN 5 ELSE 4)
         ELSE IF x >= 2 THEN (IF x >= 4 THEN 3 ELSE 2)
              ELSE x

\* the number of bits of a four-limb x
BitLen(x0) ==
    Then(x0, LAMBDA x :
        IF x[4] # 0 THEN 42 + BitLen15(x[4])
        ELSE IF x[3] # 0 THEN 28 + BitLen15(x[3])
        ELSE IF x[2] # 0 THEN 14 + BitLen15(x[2])
        ELSE BitLen15(x[1]))

\* x + y; the top limb keeps the carry
Add4(x0, y0) ==
    Then2(x0, y0, LAMBDA x, y :
        LET t0 == x[1] + y[1]
            t1 == x[2] + y[2] + (t0 \div B)
            t2 == x[3] + y[3] + (t1 \div B)
        IN  <<t0 % B, t1 % B, t2 % B, x[4] + y[4] + (t2 \div B)>>)

\* x - y for x >= y
Sub4(x0, y0) ==
    Then2(x0, y0, LAMBDA x, y :
        LET t0 == x[1] - y[1]
            t1 == x[2] - y[2] - (IF t0 < 0 THEN 1 ELSE 0)
            t2 == x[3] - y[3] - (IF t1 < 0 THEN 1 ELSE 0)
        IN  <<t0 % B, t1 % B, t2 % B, x[4] - y[4] - (IF t2 < 0 THEN 1 ELSE 0)>>)

\* x < y for limb sequences of one length, four or five limbs
Less(x0, y0) ==
    Then2(x0, y0, LAMBDA x, y :
        IF Len(x) = 5 /\ x[5] # y[5] THEN x[5] < y[5]
        ELSE IF x[4] # y[4] THEN x[4] < y[4]
        ELSE IF x[3] # y[3] THEN x[3] < y[3]
        ELSE IF x[2] # y[2] THEN x[2] < y[2]
        ELSE x[1] < y[1])

F64(k, s, e, m) == [k |-> k, s |-> s, e |-> e, m |-> m]
NaN == F64("nan", 0, 0, Zero4)
Inf(s) == F64("inf", s, 0, Zero4)
Zero(s) == F64("zero", s, 0, Zero4)
PInf == Inf(0)
NInf == Inf(1)

IsNaN(a) == a.k = "nan"
IsFin(a) == a.k \in {"zero", "fin"}
\* -1, 0 or 1 for every value but NaN
FSign(a0) ==
    Then(a0, LAMBDA a :
        IF a.k = "zero" THEN 0 ELSE IF a.s = 1 THEN -1 ELSE 1)
FNeg(a0) ==
    Then(a0, LAMBDA a :
        IF a.k = "nan" THEN a ELSE [a EXCEPT !.s = 1 - @])
FAbs(a0) ==
    Then(a0, LAMBDA a :
        IF a.k = "nan" THEN a ELSE [a EXCEPT !.s = 0])

\* x in [2^55, 2^56), the value x * 2^(e - 55): the 53 high bits, rounded
\* by the three low ones
RoundPack(s0, e0, x0) ==
    Then3(s0, e0, x0, LAMBDA s, e, x :
        Then2(ShiftRight(x, 3), x[1] % 8, LAMBDA m, low :
            Then(IF low > 4 \/ (low = 4 /\ m[1] % 2 = 1) THEN Add4(m, <<1, 0, 0, 0>>) ELSE m,
                 LAMBDA r :
                     IF r[4] = 2048
                     THEN (IF e + 1 > 1023 THEN Inf(s)
                           ELSE F64("fin", s, e + 1, <<0, 0, 0, 1024>>))
                     ELSE (IF e > 1023 THEN Inf(s) ELSE F64("fin", s, e, r)))))

\* a non-zero x < 2^57 (the top limb may hold 15 bits), the value
\* x * 2^(e - 55)
NormRound(s0, e0, x0) ==
    Then3(s0, e0, x0, LAMBDA s, e, x :
        Then(BitLen(x), LAMBDA n :
            IF n = 57
            THEN RoundPack(s, e + 1,
                           [ShiftRightJam([x EXCEPT ![4] = @ % B], 1) EXCEPT ![4] = @ + 8192])
            ELSE RoundPack(s, e - (56 - n), ShiftLeft(x, 56 - n))))

\* float64(i) of an int
FInt(i0) ==
    Then(i0, LAMBDA i :
        IF i = 0 THEN Zero(0)
        ELSE LET a == IF i < 0 THEN -i ELSE i
             IN  NormRound(IF i < 0 THEN 1 ELSE 0, 55, <<a % B, (a \div B) % B, a \div (B * B), 0>>))

\* |a| < |b| for finite non-zero a and b
MagLess(a, b) == a.e < b.e \/ (a.e = b.e /\ Less(a.m, b.m))

\* a + b for finite non-zero a and b with |a| >= |b|
AddOrdered(a, b) ==
    Then2(ShiftLeft(a.m, 3), ShiftRightJam(ShiftLeft(b.m, 3), a.e - b.e), LAMBDA x, y :
        IF a.s = b.s THEN NormRound(a.s, a.e, Add4(x, y))
        ELSE IF x = y THEN Zero(0)
        ELSE NormRound(a.s, a.e, Sub4(x, y)))

FAdd(a0, b0) ==
    Then2(a0, b0, LAMBDA a, b :
        CASE a.k = "nan" \/ b.k = "nan" -> NaN
          [] a.k = "inf" -> IF b.k = "inf" /\ a.s # b.s THEN NaN ELSE a
          [] b.k = "inf" -> b
          [] a.k = "zero" -> IF b.k = "zero" THEN Zero(IF a.s = b.s THEN a.s ELSE 0) ELSE b
          [] b.k = "zero" -> a
          [] OTHER -> IF MagLess(a, b) THEN AddOrdered(b, a) ELSE AddOrdered(a, b))

FSub(a, b) == FAdd(a, FNeg(b))

\* the product of two four-limb significands, eight limbs
Mul4(x0, y0) ==
    Then2(x0, y0, LAMBDA x, y :
        LET t0 == x[1] * y[1]
            t1 == x[1] * y[2] + x[2] * y[1] + (t0 \div B)
            t2 == x[1] * y[3] + x[2] * y[2] + x[3] * y[1] + (t1 \div B)
            t3 == x[1] * y[4] + x[2] * y[3] + x[3] * y[2] + x[4] * y[1] + (t2 \div B)
            t4 == x[2] * y[4] + x[3] * y[3] + x[4] * y[2] + (t3 \div B)
            t5 == x[3] * y[4] + x[4] * y[3] + (t4 \div B)
            t6 == x[4] * y[4] + (t5 \div B)
        IN  <<t0 % B, t1 % B, t2 % B, t3 % B, t4 % B, t5 % B, t6 % B, t6 \div B>>)

\* the 56 high bits of a product p in [2^104, 2^106), the rest sticky
MulRound(s0, e0, p0) ==
    Then3(s0, e0, p0, LAMBDA s, e, p :
        IF p[8] >= 128
        THEN RoundPack(s, e + 1, Jam(ShiftRight(p, 50), Dropped(p, 50)))
        ELSE RoundPack(s, e, Jam(ShiftRight(p, 49), Dropped(p, 49))))

FMul(a0, b0) ==
    Then2(a0, b0, LAMBDA a, b :
        CASE a.k = "nan" \/ b.k = "nan" -> NaN
          [] a.k = "inf" \/ b.k = "inf" ->
                IF a.k = "zero" \/ b.k = "zero" THEN NaN ELSE Inf((a.s + b.s) % 2)
          [] a.k = "zero" \/ b.k = "zero" -> Zero((a.s + b.s) % 2)
          [] OTHER -> MulRound((a.s + b.s) % 2, a.e + b.e, Mul4(a.m, b.m)))

\* the limb q times the four-limb d, five limbs
Mul1(q0, d0) ==
    Then2(q0, d0, LAMBDA q, d :
        LET t0 == q * d[1]
            t1 == q * d[2] + (t0 \div B)
            t2 == q * d[3] + (t1 \div B)
            t3 == q * d[4] + (t2 \div B)
        IN  <<t0 % B, t1 % B, t2 % B, t3 % B, t3 \div B>>)

\* u - p below 2^56 for five-limb u >= p
Sub5(u0, p0) ==
    Then2(u0, p0, LAMBDA u, p :
        LET t0 == u[1] - p[1]
            t1 == u[2] - p[2] - (IF t0 < 0 THEN 1 ELSE 0)
            t2 == u[3] - p[3] - (IF t1 < 0 THEN 1 ELSE 0)
            t3 == u[4] - p[4] - (IF t2 < 0 THEN 1 ELSE 0)
        IN  <<t0 % B, t1 % B, t2 % B, t3 % B>>)

\* the quotient limb of u by d, from an estimate that is at most two too big
QuotLimb(u, d, qh0) ==
    Then(qh0, LAMBDA qh :
        IF Less(u, Mul1(qh, d))
        THEN (IF Less(u, Mul1(qh - 1, d)) THEN qh - 2 ELSE qh - 1)
        ELSE qh)

\* one limb of long division: r < d, d with its top bit set; the quotient
\* limb q of r * 2^14 by d and the remainder
DivStep(r0, d) ==
    Then(r0, LAMBDA r :
        LET u == <<0, r[1], r[2], r[3], r[4]>>
            est == (r[4] * B + r[3]) \div d[4]
        IN  Then(QuotLimb(u, d, IF est > B - 1 THEN B - 1 ELSE est),
                 LAMBDA q : [q |-> q, r |-> Sub5(u, Mul1(q, d))]))

\* the 56-bit quotient of r by d, scaled by 2^56, and whether it is exact
Div4(r0, d0) ==
    Then2(r0, d0, LAMBDA r, d :
        Then(DivStep(r, d), LAMBDA s3 :
        Then(DivStep(s3.r, d), LAMBDA s2 :
        Then(DivStep(s2.r, d), LAMBDA s1 :
        Then(DivStep(s1.r, d), LAMBDA s0 :
            Jam(<<s0.q, s1.q, s2.q, s3.q>>, s0.r # Zero4))))))

FDiv(a0, b0) ==
    Then2(a0, b0, LAMBDA a, b :
        CASE a.k = "nan" \/ b.k = "nan" -> NaN
          [] a.k = "inf" -> IF b.k = "inf" THEN NaN ELSE Inf((a.s + b.s) % 2)
          [] b.k = "inf" -> Zero((a.s + b.s) % 2)
          [] b.k = "zero" -> IF a.k = "zero" THEN NaN ELSE Inf((a.s + b.s) % 2)
          [] a.k = "zero" -> Zero((a.s + b.s) % 2)
          [] OTHER ->
                IF Less(a.m, b.m)
                THEN RoundPack((a.s + b.s) % 2, a.e - b.e - 1,
                               Div4(ShiftLeft(a.m, 3), ShiftLeft(b.m, 3)))
                ELSE RoundPack((a.s + b.s) % 2, a.e - b.e,
                               Div4(ShiftLeft(a.m, 2), ShiftLeft(b.m, 3))))

\* a < b; false whenever an operand is NaN
FLt(a0, b0) ==
    Then2(a0, b0, LAMBDA a, b :
        CASE a.k = "nan" \/ b.k = "nan" -> FALSE
          [] FSign(a) # FSign(b) -> FSign(a) < FSign(b)
          [] a.k = "zero" -> FALSE
          [] a.k = "inf" \/ b.k = "inf" ->
                IF a.s = 0 THEN a.k = "fin" ELSE b.k = "fin"
          [] OTHER -> IF a.s = 0 THEN MagLess(a, b) ELSE MagLess(b, a))

\* a == b of the language: no NaN equals anything, the two zeros are equal
FEq(a0, b0) ==
    Then2(a0, b0, LAMBDA a, b :
        a.k # "nan" /\ b.k # "nan" /\ (a = b \/ (a.k = "zero" /\ b.k = "zero")))

\* a <= b; false whenever an operand is NaN
FLe(a0, b0) ==
    Then2(a0, b0, LAMBDA a, b :
        FEq(a, b) \/ FLt(a, b))

\* func min(a, b float64)
min(a0, b0) ==
    Then2(a0, b0, LAMBDA a, b :
        IF FLt(a, b) THEN a ELSE b)

\* func max(a, b float64)
max(a0, b0) ==
    Then2(a0, b0, LAMBDA a, b :
        IF FLt(b, a) THEN a ELSE b)

\* int(f): truncation toward zero.  kind "int" carries the value; "wide" is
\* an integer of 2^31 or more in magnitude, which the model does not hold;
\* for NaN and the infinities the language leaves the value to the
\* implementation, which kind "undef" records
ToInt(f0) ==
    Then(f0, LAMBDA f :
        CASE f.k \in {"nan", "inf"} -> [kind |-> "undef", v |-> 0]
          [] f.k = "zero" -> [kind |-> "int", v |-> 0]
          [] f.e < 0 -> [kind |-> "int", v |-> 0]
          [] f.e > 30 -> [kind |-> "wide", v |-> 0]
          [] OTHER ->
                LET q == ShiftRight3(f.m, 52 - f.e)
                    n == (q[3] * B + q[2]) * B + q[1]
                IN  [kind |-> "int", v |-> IF f.s = 1 THEN -n ELSE n])

\* i + k on an int obtained from ToInt
Plus(i0, k) ==
    Then(i0, LAMBDA i :
        IF i.kind = "int" THEN [i EXCEPT !.v = @ + k] ELSE i)

\* ten times a four-limb significand, five limbs
Times10(m0) ==
    Then(m0, LAMBDA m :
        LET t0 == 10 * m[1]
            t1 == 10 * m[2] + (t0 \div B)
            t2 == 10 * m[3] + (t1 \div B)
            t3 == 10 * m[4] + (t2 \div B)
        IN  <<t0 % B, t1 % B, t2 % B, t3 % B, t3 \div B>>)

\* x without its d low bits, rounded to nearest, ties to even
RoundShift(x0, d0) ==
    Then3(x0, d0, ShiftRight3(x0, d0), LAMBDA x, d, q :
        Then((q[3] * B + q[2]) * B + q[1], LAMBDA n :
            IF BitAt(x, d - 1) = 1 /\ (Dropped(x, d - 1) \/ n % 2 = 1) THEN n + 1 ELSE n))

\* fmt.Sprintf("%.1f", f): the sign and the nearest count of tenths of the
\* magnitude, ties to even; NaN and the infinities print as words; a
\* magnitude of 2^27 or more has more digits than the model keeps ("long")
Fmt1(f0) ==
    Then(f0, LAMBDA f :
        CASE f.k = "nan" -> [num |-> FALSE, neg |-> FALSE, tenths |-> 0, word |-> "NaN"]
          [] f.k = "inf" ->
                [num |-> FALSE, neg |-> f.s = 1, tenths |-> 0,
                 word |-> IF f.s = 1 THEN "-Inf" ELSE "+Inf"]
          [] f.k = "zero" -> [num |-> TRUE, neg |-> f.s = 1, tenths |-> 0, word |-> ""]
          [] f.e > 26 -> [num |-> FALSE, neg |-> f.s = 1, tenths |-> 0, word |-> "long"]
          [] f.e < -5 -> [num |-> TRUE, neg |-> f.s = 1, tenths |-> 0, word |-> ""]
          [] OTHER ->
                [num |-> TRUE, neg |-> f.s = 1,
                 tenths |-> RoundShift(Times10(f.m), 52 - f.e), word |-> ""])

\* the float64 with sign and exponent field se (12 bits) and fraction field
\* hi * 2^28 + lo (24 and 28 bits), for the normal numbers
Bits(se, hi, lo) ==
    F64("fin", se \div 2048, (se % 2048) - 1023,
        <<lo % B, lo \div B, hi % B, 1024 + (hi \div B)>>)

\* the literals 0.1, 0.4 and 0.5
Tenth == Bits(\h3fb, \h999999, \h999999a)
FourTenths == Bits(\h3fd, \h999999, \h999999a)
Half == Bits(\h3fe, 0, 0)

\* math.Pi and 4/math.Pi as float64
Pi == Bits(\h400, \h921fb5, \h4442d18)
FourOverPi == Bits(\h3ff, \h45f306, \hdc9c883)
\* Pi/4 in three parts
PI4A == Bits(\h3fe, \h921fb4, \h0000000)
PI4B == Bits(\h3e6, \h4442d0, \h0000000)
PI4C == Bits(\h3ce, \h846989, \h8cc5170)
\* the coefficients _sin and _cos of the two kernels
SinCoef ==
    <<Bits(\h3de, \h5d8fd1, \hfd19ccd), Bits(\hbe5, \hae5e5a, \h9291f5d),
      Bits(\h3ec, \h71de35, \h67d48a1), Bits(\hbf2, \ha01a01, \h9bfdf03),
      Bits(\h3f8, \h111111, \h110f7d0), Bits(\hbfc, \h555555, \h5555548)>>
CosCoef ==
    <<Bits(\hbda, \h8fa49a, \h0861a9b), Bits(\h3e2, \h1ee9d7, \hb4e3f05),
      Bits(\hbe9, \h27e4f7, \heac4bc6), Bits(\h3ef, \ha01a01, \h9c844f5),
      Bits(\hbf5, \h6c16c1, \h6c14f91), Bits(\h3fa, \h555555, \h555554b)>>

\* ((((c1*zz + c2)*zz + c3)*zz + c4)*zz + c5)*zz + c6
Poly(c, zz0) ==
    Then(zz0, LAMBDA zz :
        FAdd(FMul(FAdd(FMul(FAdd(FMul(FAdd(FMul(FAdd(FMul(c[1], zz), c[2]), zz), c[3]), zz),
                                 c[4]), zz), c[5]), zz), c[6]))

\* z + z*zz*poly
SinKernel(z0, zz0) ==
    Then2(z0, zz0, LAMBDA z, zz :
        FAdd(z, FMul(FMul(z, zz), Poly(SinCoef, zz))))

\* 1.0 - 0.5*zz + zz*zz*poly
CosKernel(zz0) ==
    Then(zz0, LAMBDA zz :
        FAdd(FSub(FInt(1), FMul(Half, zz)), FMul(FMul(zz, zz), Poly(CosCoef, zz))))

\* z = ((x - y*PI4A) - y*PI4B) - y*PI4C
Reduce(x0, y0) ==
    Then2(x0, y0, LAMBDA x, y :
        FSub(FSub(FSub(x, FMul(y, PI4A)), FMul(y, PI4B)), FMul(y, PI4C)))

\* the octant j of |x| moved to an even one, and the kernel of that octant
\* with its sign
CosOctant(x, j) ==
    Then(Reduce(x, FInt(j)), LAMBDA z :
    Then(FMul(z, z), LAMBDA zz :
    Then(IF (j % 8) % 4 \in {1, 2} THEN SinKernel(z, zz) ELSE CosKernel(zz), LAMBDA y :
        IF j % 8 \in {2, 3, 4, 5} THEN FNeg(y) ELSE y)))

\* math.Cos(x) for |x| < 2^29; the reduction of larger arguments
\* (trigReduce) is not modelled, and they have no value here
Cos(x0) ==
    Then(FAbs(x0), LAMBDA x :
        CASE x.k \in {"nan", "inf"} -> NaN
          [] x.k = "zero" \/ x.e < 29 ->
                Then(ToInt(FMul(x, FourOverPi)).v,
                     LAMBDA j : CosOctant(x, IF j % 2 = 1 THEN j + 1 ELSE j)))

(***************************************************************************)
(* The geometry dataset (japan.geojson as decoded by go.geojson).          *)
(* A feature carries Properties["id"] (idNum: whether it is a JSON         *)
(* number), Geometry.Type, Geometry.Polygon (rings) and                    *)
(* Geometry.MultiPolygon (polygons of rings).  A coordinate is             *)
(* <<lon, lat>> in whole degrees.                                          *)
(***************************************************************************)
Feature(idNum, id, type, polygon, multi) ==
    [idNum |-> idNum, id |-> id, type |-> type, polygon |-> polygon, multi |-> multi]

RingA == << <<130, 30>>, <<134, 30>>, <<134, 34>>, <<130, 30>> >>
RingHole == << <<132, 31>>, <<133, 31>>, <<133, 32>> >>
RingB == << <<134, 34>>, <<138, 34>>, <<137, 38>> >>
RingC == << <<140, 36>>, <<142, 36>>, <<142, 40>>, <<140, 40>>, <<140, 36>> >>
RingCHole == << <<141, 37>>, <<141, 38>>, <<141, 39>> >>
RingWide == << <<120, 20>>, <<150, 20>>, <<149, 50>>, <<120, 20>> >>
RingDot == << <<140, 36>>, <<140, 36>>, <<140, 36>> >>

F1 == Feature(TRUE, 1, "Polygon", <<RingA, RingHole>>, <<>>)
F2 == Feature(TRUE, 2, "MultiPolygon", <<>>, << <<RingB>>, <<RingC, RingCHole>> >>)
F2Wide == Feature(TRUE, 2, "MultiPolygon", <<>>, << <<RingWide>>, <<RingC, RingCHole>> >>)
FNoId == Feature(FALSE, 0, "Polygon", <<RingB>>, <<>>)
FPoint == Feature(TRUE, 2, "Point", <<>>, <<>>)
FDot == Feature(TRUE, 1, "Polygon", <<RingDot>>, <<>>)
FHollow == Feature(TRUE, 2, "Polygon", <<>>, <<>>)

\* the well-formed datasets: numeric ids, Polygon and MultiPolygon only
DataPlain == <<F1, F2>>
DataWide == <<F1, F2Wide>>
\* a single region without extent: every vertex at one place
DataDot == <<FDot>>
\* a feature without a numeric id; a feature of another geometry type; a
\* polygon without a ring
DataNoId == <<F1, FNoId, F2>>
DataPoint == <<F1, FPoint>>
DataHollow == <<F1, FHollow>>

Datasets == {DataPlain, DataWide, DataDot, DataNoId, DataPoint, DataHollow}

\* the rings of a feature as the two switch arms walk them
RECURSIVE Flatten(_)
Flatten(polygons) ==
    IF polygons = <<>> THEN <<>> ELSE Head(polygons) \o Flatten(Tail(polygons))

(***************************************************************************)
(* intensityToColor                                                        *)
(***************************************************************************)
intensityToColorDarkest(scale) ==
    CASE scale = 0 -> "#27272a"
      [] scale = 1 -> "#bae6fd"
      [] scale = 2 -> "#4ade80"
      [] scale = 3 -> "#facc15"
      [] scale = 4 -> "#f97316"
      [] scale = 5 -> "#dc2626"
      [] scale = 6 -> "#86198f"
      [] scale = 7 -> "#500724"
      [] OTHER -> IF scale > 6 THEN "#500724"
                  ELSE IF scale > 5 THEN "#86198f"
                  ELSE "#27272a"

intensityToColor(scale) ==
    CASE scale = 0 -> "#27272a"
      [] scale = 1 -> "#bae6fd"
      [] scale = 2 -> "#4ade80"
      [] scale = 3 -> "#facc15"
      [] scale = 4 -> "#f97316"
      [] scale = 5 -> "#dc2626"
      [] scale = 6 -> "#86198f"
      [] scale = 7 -> "#500724"
      [] OTHER -> IF scale > 6 THEN "#4a044e"
                  ELSE IF scale > 5 THEN "#b91c1c"
                  ELSE "#27272a"

(***************************************************************************)
(* scaleMap: a Go map[int]int; a missing key reads as 0                    *)
(***************************************************************************)
Lookup(scaleMap, id) == IF id \in DOMAIN scaleMap THEN scaleMap[id] ELSE 0

(***************************************************************************)
(* calculateBounds                                                         *)
(***************************************************************************)
Bounds(a, b, c, d) == [minLon |-> a, minLat |-> b, maxLon |-> c, maxLat |-> d]

InitialBounds == Bounds(FInt(180), FInt(90), FInt(-180), FInt(-90))

Widen(b, coord) ==
    LET lon == FInt(coord[1])
        lat == FInt(coord[2])
    IN  Bounds(min(b.minLon, lon), min(b.minLat, lat),
               max(b.maxLon, lon), max(b.maxLat, lat))

RECURSIVE WidenRing(_, _)
WidenRing(b, ring) ==
    IF ring = <<>> THEN b
    ELSE Then(Widen(b, Head(ring)), LAMBDA w : WidenRing(w, Tail(ring)))

RECURSIVE WidenRings(_, _)
WidenRings(b, rings) ==
    IF rings = <<>> THEN b
    ELSE Then(WidenRing(b, Head(rings)), LAMBDA w : WidenRings(w, Tail(rings)))

\* the rings the switch on feature.Geometry.Type walks, in its order
Rings(feature) ==
    CASE feature.type = "Polygon" -> feature.polygon
      [] feature.type = "MultiPolygon" -> Flatten(feature.multi)
      [] OTHER -> <<>>

\* the body of the loop over fc.Features, for one feature
BoundsStepAll(b, feature, scaleMap) == WidenRings(b, Rings(feature))

BoundsStep(b, feature, scaleMap) ==
    IF Lookup(scaleMap, feature.id) = 0 THEN b ELSE WidenRings(b, Rings(feature))

RECURSIVE BoundsLoop(_, _, _)
BoundsLoop(b, features, scaleMap) ==
    IF features = <<>> THEN b
    ELSE Then(BoundsStep(b, Head(features), scaleMap),
              LAMBDA w : BoundsLoop(w, Tail(features), scaleMap))

calculateBounds(fc, scaleMap) == BoundsLoop(InitialBounds, fc, scaleMap)

\* feature.Properties["id"].(float64) without the ok form panics on a
\* feature whose id is missing or is not a number
BoundsPanics(fc) == \E i \in 1..Len(fc) : ~fc[i].idNum

(***************************************************************************)
(* calculateCenter                                                         *)
(***************************************************************************)
\* sum += coord[axis] over coords, from sum
RECURSIVE SumAxis(_, _, _)
SumAxis(sum, coords, axis) ==
    IF coords = <<>> THEN sum
    ELSE Then(FAdd(sum, FInt(Head(coords)[axis])),
              LAMBDA s : SumAxis(s, Tail(coords), axis))

calculateCenter(coords) ==
    [lon |-> FDiv(SumAxis(Zero(0), coords, 1), FInt(Len(coords))),
     lat |-> FDiv(SumAxis(Zero(0), coords, 2), FInt(Len(coords)))]

(***************************************************************************)
(* funcToScreen, the closure over the bounds and the canvas size           *)
(***************************************************************************)
BASE_WIDTH == 1280
BASE_HEIGHT == 720

\* line 295, from the two scales
Scale(p, scaleX0, scaleY0) ==
    Then2(scaleX0, scaleY0, LAMBDA scaleX, scaleY :
        [centerLat |-> p.centerLat, centerLon |-> p.centerLon,
         centerX |-> p.centerX, centerY |-> p.centerY,
         lonCorrection |-> p.lonCorrection, lonSpan |-> p.lonSpan, latSpan |-> p.latSpan,
         scaleX |-> scaleX, scaleY |-> scaleY, scale |-> min(scaleX, scaleY)])

\* lines 290-294, from the correction factor
Spans(b, p, lonCorrection0) ==
    Then(lonCorrection0, LAMBDA lonCorrection :
        [effectiveWidth |-> p.effectiveWidth, effectiveHeight |-> p.effectiveHeight,
         centerLat |-> p.centerLat, centerLon |-> p.centerLon,
         centerX |-> p.centerX, centerY |-> p.centerY,
         lonCorrection |-> lonCorrection,
         lonSpan |-> FMul(FSub(b.maxLon, b.minLon), lonCorrection),
         latSpan |-> FSub(b.maxLat, b.minLat)])

\* lines 277-285
Centers(b, CANVAS_WIDTH0, CANVAS_HEIGHT0, keep) ==
    Then2(CANVAS_WIDTH0, CANVAS_HEIGHT0, LAMBDA CANVAS_WIDTH, CANVAS_HEIGHT :
        [effectiveWidth |-> FMul(CANVAS_WIDTH, keep),
         effectiveHeight |-> FMul(CANVAS_HEIGHT, keep),
         centerLat |-> FDiv(FAdd(b.maxLat, b.minLat), FInt(2)),
         centerLon |-> FDiv(FAdd(b.maxLon, b.minLon), FInt(2)),
         centerX |-> FDiv(CANVAS_WIDTH, FInt(2)),
         centerY |-> FDiv(CANVAS_HEIGHT, FInt(2))])

\* margin := 0.1; 1.0 - 2*margin
Keep == FSub(FInt(1), FMul(FInt(2), Tenth))

\* math.Cos(centerLat * math.Pi / 180.0)
LonCorrection(centerLat) == Cos(FDiv(FMul(centerLat, Pi), FInt(180)))

\* the quantities funcToScreen derives from the bounds and the canvas; the
\* closure derives them anew at each call, from values that do not change
Projection(b, multiplier) ==
    Then(Centers(b, FMul(FInt(BASE_WIDTH), FInt(multiplier)),
                 FMul(FInt(BASE_HEIGHT), FInt(multiplier)), Keep),
         LAMBDA c :
             Then(Spans(b, c, LonCorrection(c.centerLat)),
                  LAMBDA p : Scale(p, FDiv(p.effectiveWidth, p.lonSpan),
                                   FDiv(p.effectiveHeight, p.latSpan))))

\* lines 297-298
ToScreen(p0, lon0, lat0) ==
    Then3(p0, lon0, lat0, LAMBDA p, lon, lat :
        [x |-> FAdd(FMul(FMul(FSub(lon, p.centerLon), p.lonCorrection), p.scale),
                    p.centerX),
         y |-> FAdd(FMul(FSub(p.centerLat, lat), p.scale), p.centerY)])

funcToScreen(b, multiplier, lon, lat) == ToScreen(Projection(b, multiplier), lon, lat)

(***************************************************************************)
(* The request, and the state of the handler serving it                    *)
(***************************************************************************)
Ids == {1, 2}
Scales == {-1, 0, 7, 8}
Entries == [id : Ids, scale : Scales]

\* the lists of at most n members of S
SeqsUpTo(S, n) == UNION {[1..k -> S] : k \in 0..n}

\* the "scale" query parameter: absent, not a JSON list of {id, scale}
\* objects, or such a list
Queries ==
    {[kind |-> "missing", items |-> <<>>], [kind |-> "garbage", items |-> <<>>]}
        \cup {[kind |-> "list", items |-> q] : q \in SeqsUpTo(Entries, MaxLen)}

Sizes == {"", "1", "2", "3"}
Footers == {"", "Tokyo"}
DefaultFooter == "Code available under the MIT License (GitHub: evacuate)."

NoBounds == Bounds(Zero(0), Zero(0), Zero(0), Zero(0))
NoImage == [w |-> 0, h |-> 0, icon |-> <<>>, text |-> <<>>]
NoResponse == [status |-> 0, ctype |-> "", msg |-> "", image |-> NoImage]

VARIABLES
    query,       \* r.URL.Query().Get("scale")
    pc,          \* the handler's position
    scaleMap,    \* scaleMap
    multiplier,  \* multiplier
    fc,          \* fc.Features
    bounds,      \* minLon, minLat, maxLon, maxLat
    scene,       \* the elements written to the svg canvas
    colorArgs,   \* the levels intensityToColor has been called with
    showScale,   \* showScale
    footerText,  \* footerText
    rgba,        \* the pixel buffer of svgToPNG
    pngData,     \* what png.Encode produced from it
    resp,        \* what has been written to the http.ResponseWriter
    ran,         \* the steps executed so far, in order
    failedAt,    \* the step that failed, "" when none has
    level,       \* the argument of a lone intensityToColor call
    colour       \* its result

vars == <<query, pc, scaleMap, multiplier, fc, bounds, scene, colorArgs, showScale,
          footerText, rgba, pngData, resp, ran, failedAt, level, colour>>

work == <<scaleMap, multiplier, fc, bounds, scene, colorArgs, showScale,
          footerText, rgba, pngData>>

Init ==
    /\ query \in Queries
    /\ pc = "validate"
    /\ scaleMap = <<>>
    /\ multiplier = 1
    /\ fc = <<>>
    /\ bounds = NoBounds
    /\ scene = <<>>
    /\ colorArgs = {}
    /\ showScale = FALSE
    /\ footerText = ""
    /\ rgba = NoImage
    /\ pngData = NoImage
    /\ resp = NoResponse
    /\ ran = <<>>
    /\ failedAt = ""
    /\ level = 0
    /\ colour = ""

\* http.Error(w, msg, code), then return
Fail(step, code, msg) ==
    /\ resp' = [status |-> code, ctype |-> "text/plain; charset=utf-8", msg |-> msg,
                image |-> NoImage]
    /\ failedAt' = step
    /\ ran' = Append(ran, step)
    /\ pc' = "done"

\* a step that succeeded and hands over to the next one
Pass(step, next) ==
    /\ ran' = Append(ran, step)
    /\ pc' = next
    /\ UNCHANGED <<resp, failedAt>>

\* a run-time panic in the handler: net/http recovers it and closes the
\* connection, nothing has been written
Panic(step) ==
    /\ resp' = [NoResponse EXCEPT !.msg = "panic"]
    /\ failedAt' = step
    /\ ran' = Append(ran, step)
    /\ pc' = "done"

(***************************************************************************)
(* mapHandler, lines 215-236: parse and validate the scale parameter       *)
(***************************************************************************)
ValidScaleUpTo8(scale) == ~(scale < 0 \/ scale > 8)

ValidScale(scale) == ~(scale < 0 \/ scale > 7)

\* the index of the first entry the loop rejects, 0 when it rejects none
RECURSIVE FirstInvalidFrom(_, _)
FirstInvalidFrom(items, i) ==
    IF i > Len(items) THEN 0
    ELSE IF ~ValidScale(items[i].scale) THEN i
    ELSE FirstInvalidFrom(items, i + 1)

FirstInvalid(items) == FirstInvalidFrom(items, 1)

\* scaleMap[intensity.ID] = intensity.Scale, entry by entry
RECURSIVE BuildMapFirstWins(_, _)
BuildMapFirstWins(m, items) ==
    IF items = <<>> THEN m
    ELSE LET e == Head(items)
         IN  BuildMapFirstWins([i \in DOMAIN m \cup {e.id} |->
                                   IF i \in DOMAIN m THEN m[i] ELSE e.scale],
                               Tail(items))

RECURSIVE BuildMap(_, _)
BuildMap(m, items) ==
    IF items = <<>> THEN m
    ELSE LET e == Head(items)
         IN  BuildMap([i \in DOMAIN m \cup {e.id} |-> IF i = e.id THEN e.scale ELSE m[i]],
                      Tail(items))

Validate ==
    /\ pc = "validate"
    /\ IF query.kind = "missing"
       THEN Fail("validate", 400, "scale parameter is required") /\ UNCHANGED scaleMap
       ELSE IF query.kind = "garbage"
       THEN Fail("validate", 400, "Invalid scale data format") /\ UNCHANGED scaleMap
       ELSE IF FirstInvalid(query.items) # 0
       THEN /\ Fail("validate", 400, "Invalid scale value")
            /\ scaleMap' = BuildMap(<<>>, SubSeq(query.items, 1, FirstInvalid(query.items) - 1))
       ELSE Pass("validate", "size") /\ scaleMap' = BuildMap(<<>>, query.items)
    /\ UNCHANGED <<query, multiplier, fc, bounds, scene, colorArgs, showScale,
                   footerText, rgba, pngData, level, colour>>

(***************************************************************************)
(* mapHandler, lines 238-258: the size class                               *)
(***************************************************************************)
MultiplierOf(size) ==
    CASE size = "1" -> 1
      [] size = "2" -> 2
      [] size = "3" -> 4
      [] OTHER -> 1

SelectSize ==
    /\ pc = "size"
    /\ \E size \in Sizes : multiplier' = MultiplierOf(size)
    /\ Pass("size", "read")
    /\ UNCHANGED <<query, scaleMap, fc, bounds, scene, colorArgs, showScale,
                   footerText, rgba, pngData, level, colour>>

(***************************************************************************)
(* mapHandler, lines 260-270: read and decode japan.geojson                *)
(***************************************************************************)
ReadFile ==
    /\ pc = "read"
    /\ \E ok \in BOOLEAN :
          IF ok THEN Pass("read", "parse")
          ELSE Fail("read", 500, "Failed to read geojson")
    /\ UNCHANGED <<query, level, colour>>
    /\ UNCHANGED work

Unmarshal ==
    /\ pc = "parse"
    /\ \E ok \in BOOLEAN :
          IF ok THEN \E ds \in Datasets : fc' = ds /\ Pass("parse", "bounds")
          ELSE fc' = fc /\ Fail("parse", 500, "Failed to unmarshal geojson")
    /\ UNCHANGED <<query, scaleMap, multiplier, bounds, scene, colorArgs, showScale,
                   footerText, rgba, pngData, level, colour>>

(***************************************************************************)
(* mapHandler, line 273: the view bounds                                   *)
(***************************************************************************)
CalculateBounds ==
    /\ pc = "bounds"
    /\ IF BoundsPanics(fc)
       THEN Panic("bounds") /\ UNCHANGED bounds
       ELSE bounds' = calculateBounds(fc, scaleMap) /\ Pass("bounds", "scene")
    /\ UNCHANGED <<query, scaleMap, multiplier, fc, scene, colorArgs, showScale,
                   footerText, rgba, pngData, level, colour>>

(***************************************************************************)
(* mapHandler, lines 302-367: the svg scene                                *)
(***************************************************************************)
NoNum == [num |-> FALSE, neg |-> FALSE, tenths |-> 0, word |-> ""]
Token(cmd, x, y) == [cmd |-> cmd, x |-> x, y |-> y]

TokenAt(cmd, pt0) ==
    Then(pt0, LAMBDA pt :
        Token(cmd, Fmt1(pt.x), Fmt1(pt.y)))

\* " L%.1f %.1f" for every vertex after the first; p is what funcToScreen
\* derives from the bounds
RECURSIVE LineTos(_, _)
LineTos(ring, p) ==
    IF ring = <<>> THEN <<>>
    ELSE <<TokenAt("L", ToScreen(p, FInt(Head(ring)[1]), FInt(Head(ring)[2])))>>
             \o LineTos(Tail(ring), p)

\* "M", "%.1f %.1f" for the first vertex, the line-tos, " Z"
PathStr(ring, p) ==
    IF ring = <<>> THEN <<Token("M", NoNum, NoNum), Token("Z", NoNum, NoNum)>>
    ELSE <<TokenAt("M", ToScreen(p, FInt(Head(ring)[1]), FInt(Head(ring)[2])))>>
             \o LineTos(Tail(ring), p) \o <<Token("Z", NoNum, NoNum)>>

\* finalPath += p + " " over paths
RECURSIVE JoinPaths(_, _)
JoinPaths(rings, p) ==
    IF rings = <<>> THEN <<>>
    ELSE PathStr(Head(rings), p) \o JoinPaths(Tail(rings), p)

\* the rings the scene loop turns into paths
PathRingsFirstPolygon(feature) ==
    CASE feature.type = "Polygon" -> feature.polygon
      [] feature.type = "MultiPolygon" ->
            IF feature.multi = <<>> THEN <<>> ELSE feature.multi[1]
      [] OTHER -> <<>>

PathRings(feature) ==
    CASE feature.type = "Polygon" -> feature.polygon
      [] feature.type = "MultiPolygon" -> Flatten(feature.multi)
      [] OTHER -> <<>>

FinalPath(feature, p) == JoinPaths(PathRings(feature), p)

Rect(m) ==
    [tag |-> "rect", w |-> BASE_WIDTH * m, h |-> BASE_HEIGHT * m, d |-> <<>>,
     fill |-> "#18181b", stroke |-> "", strokeWidth |-> NoNum, fillOpacity |-> ""]

\* scaleValue := 0; if val, ok := scaleMap[int(id)]; ok { scaleValue = val }
ScaleValue(feature, sm) ==
    IF feature.id \in DOMAIN sm THEN sm[feature.id] ELSE 0

\* strokeWidth := 0.4 * multiplier, printed with %.1f
PathElement(feature, sm, p, m) ==
    [tag |-> "path", w |-> 0, h |-> 0, d |-> FinalPath(feature, p),
     fill |-> intensityToColor(ScaleValue(feature, sm)), stroke |-> "#a1a1aa",
     strokeWidth |-> Fmt1(FMul(FourTenths, FInt(m))), fillOpacity |-> "0.8"]

RECURSIVE PathElements(_, _, _, _)
PathElements(features, sm, p, m) ==
    IF features = <<>> THEN <<>>
    ELSE <<PathElement(Head(features), sm, p, m)>> \o PathElements(Tail(features), sm, p, m)

\* the canvas: the background rectangle, then a path per feature
Scene(features, sm, b, m) ==
    Then(Projection(b, m), LAMBDA p : <<Rect(m)>> \o PathElements(features, sm, p, m))

BuildScene ==
    /\ pc = "scene"
    /\ IF \E i \in 1..Len(fc) : ~fc[i].idNum
       THEN /\ Fail("scene", 500, "Invalid ID format in GeoJSON")
            /\ UNCHANGED <<scene, colorArgs, showScale, footerText>>
       ELSE /\ scene' = Scene(fc, scaleMap, bounds, multiplier)
            /\ colorArgs' = {ScaleValue(fc[i], scaleMap) : i \in 1..Len(fc)}
            /\ footerText' \in Footers
            /\ showScale' \in BOOLEAN
            /\ Pass("scene", "rasterize")
    /\ UNCHANGED <<query, scaleMap, multiplier, fc, bounds, rgba, pngData, level, colour>>

(***************************************************************************)
(* svgToPNG                                                                *)
(***************************************************************************)
\* lines 138-152: oksvg reads the scene, rasterx draws it into rgba
Rasterize ==
    /\ pc = "rasterize"
    /\ \E ok \in BOOLEAN :
          IF ok
          THEN /\ rgba' = [w |-> BASE_WIDTH * multiplier, h |-> BASE_HEIGHT * multiplier,
                           icon |-> scene, text |-> <<>>]
               /\ Pass("rasterize", "font")
          ELSE rgba' = rgba /\ Fail("rasterize", 500, "failed to read icon stream")
    /\ UNCHANGED <<query, scaleMap, multiplier, fc, bounds, scene, colorArgs, showScale,
                   footerText, pngData, level, colour>>

\* lines 154-171: the default caption, the font, the freetype context
LoadFont ==
    /\ pc = "font"
    /\ \E ok \in BOOLEAN :
          IF ok
          THEN /\ footerText' = IF footerText = "" THEN DefaultFooter ELSE footerText
               /\ Pass("font", "labels")
          ELSE /\ footerText' = IF footerText = "" THEN DefaultFooter ELSE footerText
               /\ Fail("font", 500, "failed to load font")
    /\ UNCHANGED <<query, scaleMap, multiplier, fc, bounds, scene, colorArgs, showScale,
                   rgba, pngData, level, colour>>

Digit == <<"0", "1", "2", "3", "4", "5", "6", "7", "8", "9">>

\* fmt.Sprintf("%d", n)
RECURSIVE Itoa(_)
Itoa(n) ==
    IF n < 0 THEN "-" \o Itoa(-n)
    ELSE IF n < 10 THEN Digit[n + 1]
    ELSE Itoa(n \div 10) \o Digit[(n % 10) + 1]

DrawString(kind, text, x, y) == [kind |-> kind, text |-> text, x |-> x, y |-> y]

\* lines 182-189: the ring a feature's label is centred on
CenterRingLast(feature) ==
    CASE feature.type = "Polygon" -> feature.polygon[Len(feature.polygon)]
      [] feature.type = "MultiPolygon" -> feature.multi[1][Len(feature.multi[1])]
      [] OTHER -> <<>>

CenterRing(feature) ==
    CASE feature.type = "Polygon" -> feature.polygon[1]
      [] feature.type = "MultiPolygon" -> feature.multi[1][1]
      [] OTHER -> <<>>

\* var centerLon, centerLat float64 stay 0 for any other geometry type
LabelCenter(feature) ==
    IF feature.type \in {"Polygon", "MultiPolygon"}
    THEN calculateCenter(CenterRing(feature))
    ELSE [lon |-> Zero(0), lat |-> Zero(0)]

\* Polygon[0] and MultiPolygon[0][0] index out of range
CenterPanics(feature) ==
    CASE feature.type = "Polygon" -> feature.polygon = <<>>
      [] feature.type = "MultiPolygon" ->
            IF feature.multi = <<>> THEN TRUE ELSE feature.multi[1] = <<>>
      [] OTHER -> FALSE

\* lines 176-180: the features that get a label
Labelled(feature, sm) == feature.id \in DOMAIN sm /\ sm[feature.id] # 0

\* freetype.Pt(int(x)-5, int(y)+5) and c.DrawString of the scale
LabelAt(text, pt0) ==
    Then(pt0, LAMBDA pt :
        DrawString("label", text, Plus(ToInt(pt.x), -5), Plus(ToInt(pt.y), 5)))

CenterToScreen(p, c0) ==
    Then(c0, LAMBDA c :
        ToScreen(p, c.lon, c.lat))

Label(feature, sm, p) ==
    LabelAt(Itoa(Lookup(sm, feature.id)), CenterToScreen(p, LabelCenter(feature)))

\* the labels the loop draws, feature after feature, up to the first
\* labelled feature whose ring is missing
RECURSIVE Labels(_, _, _)
Labels(features, sm, p) ==
    IF features = <<>> THEN <<>>
    ELSE IF ~Labelled(Head(features), sm) THEN Labels(Tail(features), sm, p)
    ELSE IF CenterPanics(Head(features)) THEN <<>>
    ELSE <<Label(Head(features), sm, p)>> \o Labels(Tail(features), sm, p)

LabelsOf(features, sm, b, m) ==
    Then(Projection(b, m), LAMBDA p : Labels(features, sm, p))

\* whether the loop, every DrawString succeeding, reaches a labelled feature
\* whose ring is missing
RECURSIVE LabelsPanic(_, _)
LabelsPanic(features, sm) ==
    IF features = <<>> THEN FALSE
    ELSE IF ~Labelled(Head(features), sm) THEN LabelsPanic(Tail(features), sm)
    ELSE IF CenterPanics(Head(features)) THEN TRUE
    ELSE LabelsPanic(Tail(features), sm)

\* lines 173-199: the loop draws label after label; it returns at the first
\* DrawString that fails, and panics when it comes to a labelled feature
\* whose ring is missing
DrawLabels ==
    /\ pc = "labels"
    /\ IF ~showScale
       THEN rgba' = rgba /\ Pass("labels", "footer")
       ELSE \E all \in {LabelsOf(fc, scaleMap, bounds, multiplier)} :
               \E n \in 0..Len(all) :
                   /\ rgba' = [rgba EXCEPT !.text = SubSeq(all, 1, n)]
                   /\ IF n < Len(all)
                      THEN Fail("labels", 500, "failed to draw scale value")
                      ELSE IF LabelsPanic(fc, scaleMap)
                      THEN Panic("labels")
                      ELSE Pass("labels", "footer")
    /\ UNCHANGED <<query, scaleMap, multiplier, fc, bounds, scene, colorArgs, showScale,
                   footerText, pngData, level, colour>>

\* lines 201-205: freetype.Pt(int(10*multiplier), height-int(14*multiplier))
DrawFooter ==
    /\ pc = "footer"
    /\ \E ok \in BOOLEAN :
          IF ok
          THEN /\ rgba' = [rgba EXCEPT !.text =
                              Append(@, DrawString("footer", footerText,
                                  ToInt(FMul(FInt(10), FInt(multiplier))),
                                  [kind |-> "int", v |-> rgba.h -
                                      ToInt(FMul(FInt(14), FInt(multiplier))).v]))]
               /\ Pass("footer", "encode")
          ELSE rgba' = rgba /\ Fail("footer", 500, "failed to draw footer text")
    /\ UNCHANGED <<query, scaleMap, multiplier, fc, bounds, scene, colorArgs, showScale,
                   footerText, pngData, level, colour>>

\* lines 207-211
Encode ==
    /\ pc = "encode"
    /\ \E ok \in BOOLEAN :
          IF ok THEN pngData' = rgba /\ Pass("encode", "write")
          ELSE pngData' = pngData /\ Fail("encode", 500, "failed to encode png")
    /\ UNCHANGED <<query, scaleMap, multiplier, fc, bounds, scene, colorArgs, showScale,
                   footerText, rgba, level, colour>>

(***************************************************************************)
(* mapHandler, lines 376-377: the response                                 *)
(***************************************************************************)
WriteResponse ==
    /\ pc = "write"
    /\ resp' = [status |-> 200, ctype |-> "image/png", msg |-> "", image |-> pngData]
    /\ ran' = Append(ran, "write")
    /\ pc' = "done"
    /\ UNCHANGED <<query, failedAt, level, colour>>
    /\ UNCHANGED work

Next ==
    \/ Validate
    \/ SelectSize
    \/ ReadFile
    \/ Unmarshal
    \/ CalculateBounds
    \/ BuildScene
    \/ Rasterize
    \/ LoadFont
    \/ DrawLabels
    \/ DrawFooter
    \/ Encode
    \/ WriteResponse

Spec == Init /\ [][Next]_vars

(***************************************************************************)
(* intensityToColor on its own, applied to every level of a range          *)
(***************************************************************************)
InitColor ==
    /\ level \in -MaxLevel..MaxLevel
    /\ colour = ""
    /\ pc = "color"
    /\ query = [kind |-> "missing", items |-> <<>>]
    /\ scaleMap = <<>>
    /\ multiplier = 1
    /\ fc = <<>>
    /\ bounds = NoBounds
    /\ scene = <<>>
    /\ colorArgs = {}
    /\ showScale = FALSE
    /\ footerText = ""
    /\ rgba = NoImage
    /\ pngData = NoImage
    /\ resp = NoResponse
    /\ ran = <<>>
    /\ failedAt = ""

ApplyColor ==
    /\ pc = "color"
    /\ colour' = intensityToColor(level)
    /\ pc' = "colored"
    /\ UNCHANGED <<query, level, resp, ran, failedAt>>
    /\ UNCHANGED work

NextColor == ApplyColor

SpecColor == InitColor /\ [][NextColor]_vars

(***************************************************************************)
(* Properties.  What follows is stated from the request and the dataset,   *)
(* not from the intermediate values of the handler.                        *)
(***************************************************************************)
AllSteps ==
    <<"validate", "size", "read", "parse", "bounds", "scene", "rasterize", "font",
      "labels", "footer", "encode", "write">>

Ran(step) == \E k \in 1..Len(ran) : ran[k] = step
Succeeded(step) == Ran(step) /\ failedAt # step

MinOf(S) == CHOOSE x \in S : \A y \in S : x <= y
MaxOf(S) == CHOOSE x \in S : \A y \in S : y <= x

\* the level the request assigns to a region: its last entry, 0 without one
LastLevel(items, id) ==
    LET js == {j \in 1..Len(items) : items[j].id = id}
    IN  IF js = {} THEN 0 ELSE items[MaxOf(js)].scale

ActiveIdx == {i \in 1..Len(fc) : LastLevel(query.items, fc[i].id) # 0}
ActiveOf(ds) == SelectSeq(ds, LAMBDA f : LastLevel(query.items, f.id) # 0)

ImageWritten == resp.ctype = "image/png" \/ resp.image # NoImage \/ resp.status = 200

(***************************************************************************)
(* C1.  A request whose scale parameter is missing, is not parseable, or   *)
(* holds an entry with scale < 0 or scale > 7 at any position ends with    *)
(* status 400 before any rendering step: the dataset is not read, no       *)
(* bounds are computed, no scene is built, no image is produced.           *)
(***************************************************************************)
RejectedQuery ==
    \/ query.kind # "list"
    \/ \E i \in 1..Len(query.items) : query.items[i].scale < 0 \/ query.items[i].scale > 7

C1_RejectedBeforeRendering ==
    RejectedQuery =>
        /\ pc \in {"validate", "done"}
        /\ (pc = "done" =>
               /\ resp.status = 400
               /\ ~ImageWritten
               /\ ran = <<"validate">>)
        /\ fc = <<>> /\ bounds = NoBounds /\ scene = <<>>
        /\ rgba = NoImage /\ pngData = NoImage

C1_Witness ==
    /\ pc = "done"
    /\ query.kind = "list" /\ Len(query.items) = 2
    /\ query.items[1].scale = 7 /\ query.items[2].scale = 8
    /\ resp.status = 400

(***************************************************************************)
(* C2.  Image bytes and the image content type are written only after      *)
(* every step has succeeded.  A failing step is the last step that runs,   *)
(* it ends the request, and it leaves an error response without image      *)
(* bytes.                                                                  *)
(***************************************************************************)
ReportingSteps ==
    {"validate", "read", "parse", "scene", "rasterize", "font", "labels", "footer",
     "encode"}

\* the part that holds: no image unless every step succeeded, and nothing
\* runs after a failing step
C2_NoImageUnlessEveryStepSucceeded ==
    /\ ran = SubSeq(AllSteps, 1, Len(ran))
    /\ (ImageWritten =>
           /\ ran = AllSteps /\ failedAt = ""
           /\ resp.status = 200 /\ resp.ctype = "image/png" /\ resp.image = pngData)
    /\ (failedAt # "" =>
           /\ pc = "done"
           /\ ~ImageWritten
           /\ ran[Len(ran)] = failedAt)
    /\ (pc = "done" => ~ENABLED Next)

\* the part that does not: a failure at one of the steps of the sentence
\* leaves an error response
C2_FailureLeavesErrorResponse ==
    failedAt \in ReportingSteps => resp.status \in {400, 500} /\ resp.msg # "panic"

C2_ImageOnlyAfterEveryStep ==
    C2_NoImageUnlessEveryStepSucceeded /\ C2_FailureLeavesErrorResponse

\* label drawing comes to an active polygon without a ring after it has
\* drawn the label of the region before it: the handler panics, and the
\* request ends with nothing written to the response
C2_WitnessLabelPanic ==
    /\ pc = "done" /\ failedAt = "labels" /\ fc = DataHollow
    /\ showScale /\ Len(rgba.text) = 1 /\ rgba.text[1].kind = "label"
    /\ resp.status = 0 /\ resp.msg = "panic" /\ resp.image = NoImage

(***************************************************************************)
(* C3.  A dataset with a feature whose id is missing or not numeric, or    *)
(* whose geometry is neither Polygon nor MultiPolygon, makes the request   *)
(* fail with an error response that reports it, never succeed with an      *)
(* image.                                                                  *)
(***************************************************************************)
Malformed(f) == ~f.idNum \/ f.type \notin {"Polygon", "MultiPolygon"}

C3_MalformedFeatureIsReported ==
    (pc = "done" /\ \E i \in 1..Len(fc) : Malformed(fc[i])) =>
        /\ resp.status = 500 /\ resp.msg # ""
        /\ ~ImageWritten

\* a Point feature is drawn as an empty path and the image is served
C3_WitnessEmptyPath ==
    /\ pc = "done" /\ fc = DataPoint
    /\ resp.status = 200 /\ resp.ctype = "image/png"
    /\ scene[3].tag = "path" /\ scene[3].d = <<>>

\* a feature without a numeric id stops the handler inside calculateBounds,
\* before anything is written to the response
C3_WitnessNoResponse ==
    /\ pc = "done" /\ fc = DataNoId
    /\ failedAt = "bounds" /\ resp.status = 0 /\ resp.msg = "panic"

(***************************************************************************)
(* C4.  When no region of the dataset has a non-zero intensity the bounds  *)
(* the projection is computed from are never inverted: the caller          *)
(* replaces the inverted result of calculateBounds by a default.           *)
(***************************************************************************)
C4_ProjectionBoundsNotInverted ==
    Succeeded("scene") =>
        /\ FLe(bounds.minLon, bounds.maxLon)
        /\ FLe(bounds.minLat, bounds.maxLat)

\* the empty list: the scene is projected from the inverted bounds, with a
\* negative scale
C4_WitnessNegativeScale ==
    /\ Succeeded("scene") /\ query.items = <<>>
    /\ bounds = InitialBounds
    /\ FSign(Projection(bounds, multiplier).scale) = -1
    /\ pc = "done" /\ resp.status = 200

(***************************************************************************)
(* C5.  With at least one active region the bounds are, on each axis, the  *)
(* least and the greatest coordinate over every vertex of every ring of    *)
(* every polygon of the active regions, and nothing else: two datasets     *)
(* with the same active regions give the same bounds whatever their        *)
(* inactive regions are.                                                   *)
(***************************************************************************)
RingVertices(ring) == {ring[k] : k \in 1..Len(ring)}
PolygonVertices(poly) == UNION {RingVertices(poly[r]) : r \in 1..Len(poly)}

VerticesOf(f) ==
    CASE f.type = "Polygon" -> PolygonVertices(f.polygon)
      [] f.type = "MultiPolygon" ->
            UNION {PolygonVertices(f.multi[q]) : q \in 1..Len(f.multi)}
      [] OTHER -> {}

ActiveVertices == UNION {VerticesOf(fc[i]) : i \in ActiveIdx}

Extent(V) ==
    LET lons == {v[1] : v \in V}
        lats == {v[2] : v \in V}
    IN  Bounds(FInt(MinOf(lons)), FInt(MinOf(lats)), FInt(MaxOf(lons)), FInt(MaxOf(lats)))

NumericIds(ds) == \A i \in 1..Len(ds) : ds[i].idNum

\* stated of the bounds as the bounds step leaves them; no later step writes them
C5_BoundsAreActiveExtent ==
    (pc = "scene" /\ ActiveVertices # {}) =>
        /\ bounds = Extent(ActiveVertices)
        /\ \A ds \in Datasets :
               (NumericIds(ds) /\ ActiveOf(ds) = ActiveOf(fc)) =>
                   calculateBounds(ds, scaleMap) = bounds

C5_Witness ==
    /\ pc = "scene" /\ fc = DataPlain
    /\ ActiveIdx = {1}
    /\ ActiveOf(DataWide) = ActiveOf(fc)
    /\ bounds = Extent(VerticesOf(F1))
    /\ bounds # Extent(VerticesOf(F1) \cup VerticesOf(F2))

(***************************************************************************)
(* C6.  The drawn bounds fit the centred 80 percent of the canvas: with    *)
(* positive spans the corners of the bounds land inside it, the centre of  *)
(* the bounds lands on the centre of the canvas and a larger latitude      *)
(* gives a smaller y; with a zero span the projection is guarded, so the   *)
(* scale and the projected coordinates stay finite.                        *)
(***************************************************************************)
MidOf(a, b) == FDiv(FAdd(a, b), FInt(2))

\* a thousandth of a pixel, the room left to the rounding of float64
Eps == FDiv(FInt(1), FInt(1024))
Near(a, b) == FLe(FSub(a, Eps), b) /\ FLe(b, FAdd(a, Eps))

InKeep(pt, W, H) ==
    /\ FLe(FSub(FInt(W \div 10), Eps), pt.x) /\ FLe(pt.x, FAdd(FInt((9 * W) \div 10), Eps))
    /\ FLe(FSub(FInt(H \div 10), Eps), pt.y) /\ FLe(pt.y, FAdd(FInt((9 * H) \div 10), Eps))

PositiveSpans == FLt(bounds.minLon, bounds.maxLon) /\ FLt(bounds.minLat, bounds.maxLat)
ZeroSpan ==
    /\ FLe(bounds.minLon, bounds.maxLon) /\ FLe(bounds.minLat, bounds.maxLat)
    /\ ~PositiveSpans

FitsKeep(p, W, H) ==
    /\ InKeep(ToScreen(p, bounds.minLon, bounds.minLat), W, H)
    /\ InKeep(ToScreen(p, bounds.maxLon, bounds.maxLat), W, H)
    /\ Near(FInt(W \div 2),
            ToScreen(p, MidOf(bounds.minLon, bounds.maxLon),
                     MidOf(bounds.minLat, bounds.maxLat)).x)
    /\ Near(FInt(H \div 2),
            ToScreen(p, MidOf(bounds.minLon, bounds.maxLon),
                     MidOf(bounds.minLat, bounds.maxLat)).y)
    /\ FLt(ToScreen(p, bounds.maxLon, bounds.maxLat).y,
           ToScreen(p, bounds.minLon, bounds.minLat).y)
    /\ FLt(ToScreen(p, bounds.minLon, bounds.minLat).x,
           ToScreen(p, bounds.maxLon, bounds.maxLat).x)

\* stated of the bounds as the bounds step leaves them
C6_PositiveSpansFit ==
    (pc = "scene" /\ PositiveSpans) =>
        \A p \in {Projection(bounds, multiplier)} :
            FitsKeep(p, BASE_WIDTH * multiplier, BASE_HEIGHT * multiplier)

C6_ZeroSpanGuarded ==
    (pc = "scene" /\ ZeroSpan) =>
        \A p \in {Projection(bounds, multiplier)} :
            /\ IsFin(p.scale)
            /\ IsFin(ToScreen(p, bounds.minLon, bounds.minLat).x)
            /\ IsFin(ToScreen(p, bounds.minLon, bounds.minLat).y)

C6_FitsAndGuarded == C6_PositiveSpansFit /\ C6_ZeroSpanGuarded

\* the only active region is a single point: the scale is +Inf and the
\* projected corner is NaN
C6_WitnessInfiniteScale ==
    /\ pc = "done" /\ resp.status = 200 /\ ZeroSpan /\ fc = DataDot
    /\ Projection(bounds, multiplier).scale = PInf
    /\ funcToScreen(bounds, multiplier, bounds.minLon, bounds.minLat).x = NaN

(***************************************************************************)
(* C7.  intensityToColor returns the palette entry of its level for the    *)
(* levels 0 to 7, the level-0 colour for a negative level, and for every   *)
(* level above 7 one and the same fallback colour "#4a044e", which is no   *)
(* entry of the palette.                                                   *)
(***************************************************************************)
Palette ==
    <<"#27272a", "#bae6fd", "#4ade80", "#facc15", "#f97316", "#dc2626", "#86198f",
      "#500724">>

InPalette(c) == \E k \in 1..Len(Palette) : Palette[k] = c

C7_ColorOfLevel ==
    pc = "colored" =>
        /\ (level \in 0..7 => colour = Palette[level + 1])
        /\ (level < 0 => colour = Palette[1])
        /\ (level > 7 => colour = "#4a044e" /\ ~InPalette(colour))

C7_Witness == pc = "colored" /\ level = 8 /\ colour = "#4a044e"

\* as the sentence was written: a level above 7 gets the darkest colour
C7_AboveSevenIsDarkest ==
    (pc = "colored" /\ level > 7) => colour \in {Palette[7], Palette[8]}

(***************************************************************************)
(* C8.  In a request that reaches scene building every region is filled    *)
(* with the palette entry of the level of the last request entry for its   *)
(* id, or with the level-0 colour when the request has no entry for it,    *)
(* and intensityToColor is only ever applied to levels in 0..7.            *)
(***************************************************************************)
C8_FillIsPaletteOfLastLevel ==
    Succeeded("scene") =>
        /\ Len(scene) = Len(fc) + 1
        /\ \A i \in 1..Len(fc) :
               scene[i + 1].fill = Palette[LastLevel(query.items, fc[i].id) + 1]
        /\ colorArgs \subseteq 0..7

C8_Witness ==
    /\ Succeeded("scene") /\ fc = DataPlain
    /\ Len(query.items) = 2
    /\ query.items[1] = [id |-> 1, scale |-> 0]
    /\ query.items[2] = [id |-> 1, scale |-> 7]
    /\ scene[2].fill = "#500724"
    /\ scene[3].fill = "#27272a"

(***************************************************************************)
(* C9.  The scene is the full-canvas rectangle followed by one path per    *)
(* dataset region in dataset order.  A region's path is one closed         *)
(* subpath per ring, in ring order, over all the polygons of the region;   *)
(* a subpath is a move-to, then line-tos, then a close, with one           *)
(* projected vertex per vertex of its ring, in the ring's order.           *)
(***************************************************************************)
RingPairs(f) == UNION {{<<q, r>> : r \in 1..Len(f.multi[q])} : q \in 1..Len(f.multi)}
PairBefore(a, b) == a[1] < b[1] \/ (a[1] = b[1] /\ a[2] < b[2])
NthPair(f, k) ==
    CHOOSE pr \in RingPairs(f) :
        Cardinality({q \in RingPairs(f) : PairBefore(q, pr)}) = k - 1

\* the rings of a region in source order
RingList(f) ==
    CASE f.type = "Polygon" -> f.polygon
      [] f.type = "MultiPolygon" ->
            [k \in 1..Cardinality(RingPairs(f)) |->
                f.multi[NthPair(f, k)[1]][NthPair(f, k)[2]]]
      [] OTHER -> <<>>

ClosePos(d) == {j \in 1..Len(d) : d[j].cmd = "Z"}
NthClose(d, k) == CHOOSE j \in ClosePos(d) : Cardinality({i \in ClosePos(d) : i < j}) = k - 1
\* the k-th subpath of d without its close
Subpath(d, k) ==
    SubSeq(d, IF k = 1 THEN 1 ELSE NthClose(d, k - 1) + 1, NthClose(d, k) - 1)

SubpathOfRing(sp, ring, p) ==
    /\ Len(sp) = Len(ring)
    /\ \A j \in 1..Len(ring) :
           sp[j] = TokenAt(IF j = 1 THEN "M" ELSE "L",
                           ToScreen(p, FInt(ring[j][1]), FInt(ring[j][2])))

PathOfRegion(d, rings, p) ==
    /\ Cardinality(ClosePos(d)) = Len(rings)
    /\ (d # <<>> => d[Len(d)].cmd = "Z")
    /\ \A k \in 1..Len(rings) : SubpathOfRing(Subpath(d, k), rings[k], p)

\* stated of the scene as the scene step leaves it; no later step writes it
C9_SceneIsRectThenRegionPaths ==
    pc = "rasterize" =>
        /\ Len(scene) = Len(fc) + 1
        /\ scene[1].tag = "rect"
        /\ scene[1].w = BASE_WIDTH * multiplier /\ scene[1].h = BASE_HEIGHT * multiplier
        /\ \A p \in {Projection(bounds, multiplier)} :
               \A i \in 1..Len(fc) :
                   /\ scene[i + 1].tag = "path"
                   /\ PathOfRegion(scene[i + 1].d, RingList(fc[i]), p)

C9_Witness ==
    /\ pc = "rasterize" /\ fc = DataPlain
    /\ Cardinality(ClosePos(scene[2].d)) = 2
    /\ Cardinality(ClosePos(scene[3].d)) = 3
    /\ Len(scene[3].d) = Len(RingB) + Len(RingC) + Len(RingCHole) + 3

(***************************************************************************)
(* C10.  With labels requested the image carries one label per region of   *)
(* non-zero assigned level, in dataset order, and none for the others;     *)
(* the label is the level, anchored at the projection of the mean of the   *)
(* vertices of the first ring (of the first polygon), moved by (-5, +5).   *)
(* Without labels requested none is drawn.  Either way the footer is       *)
(* drawn once, after every label.                                          *)
(***************************************************************************)
LevelText == <<"1", "2", "3", "4", "5", "6", "7">>

FirstRing(f) == IF f.type = "Polygon" THEN f.polygon[1] ELSE f.multi[1][1]

AxisSum(ring, axis) ==
    LET s[k \in 0..Len(ring)] == IF k = 0 THEN 0 ELSE s[k - 1] + ring[k][axis]
    IN  s[Len(ring)]

\* the projection of the mean of the vertices of a ring, truncated
MeanAnchor(ring, p) ==
    Then(ToScreen(p, FDiv(FInt(AxisSum(ring, 1)), FInt(Len(ring))),
                  FDiv(FInt(AxisSum(ring, 2)), FInt(Len(ring)))),
         LAMBDA pt : [x |-> ToInt(pt.x), y |-> ToInt(pt.y)])

Anchored(lab, a) ==
    /\ lab.x.kind = a.x.kind /\ lab.y.kind = a.y.kind
    /\ (a.x.kind = "int" => lab.x.v = a.x.v - 5)
    /\ (a.y.kind = "int" => lab.y.v = a.y.v + 5)

LabelOfRegion(lab, f, p) ==
    /\ lab.kind = "label"
    /\ lab.text = LevelText[LastLevel(query.items, f.id)]
    /\ (f.type \in {"Polygon", "MultiPolygon"} => Anchored(lab, MeanAnchor(FirstRing(f), p)))

\* stated of the pixel buffer as the footer step leaves it; no later step
\* draws into it
C10_LabelsThenOneFooter ==
    pc = "encode" =>
        /\ Len(rgba.text) >= 1
        /\ rgba.text[Len(rgba.text)].kind = "footer"
        /\ Len(rgba.text) - 1 = (IF showScale THEN Len(ActiveOf(fc)) ELSE 0)
        /\ (Len(rgba.text) > 1 =>
               \A p \in {Projection(bounds, multiplier)} :
                   \A k \in 1..(Len(rgba.text) - 1) :
                       LabelOfRegion(rgba.text[k], ActiveOf(fc)[k], p))

C10_Witness ==
    /\ Succeeded("footer") /\ showScale /\ fc = DataPlain
    /\ Len(rgba.text) = 3
    /\ rgba.text[1].text = "7" /\ rgba.text[2].text = "7"
    /\ rgba.text[1].x.kind = "int" /\ rgba.text[2].x.kind = "int"
    /\ rgba.text[3].kind = "footer"

C10_WitnessNoLabels ==
    /\ Succeeded("footer") /\ ~showScale /\ ActiveIdx # {}
    /\ Len(rgba.text) = 1

====
